---- MODULE Spec2Model ----
(***************************************************************************)
(* POLIPHONE: the alignment-error analysis of extract_IR.py                *)
(* (process_device_signals, nmse_error, extract_ir_sweep, normalize) and   *)
(* the channel-response batch of compute_channel_response.py               *)
(* (compute_channel_responses, normalize_audio).                           *)
(*                                                                         *)
(* Floating-point values are modelled exactly: an NMSE is the rational     *)
(* p/q, or one of the non-finite outcomes NaN / inf that numpy produces    *)
(* (with a warning, never an exception) for 0/0 and x/0.                   *)
(***************************************************************************)
EXTENDS Integers, Sequences, FiniteSets, TLC

VARIABLES
    \* ---- process_device_signals (extract_IR.py) ----
    pc,                       \* position in process_device_signals
    margin, fs, save_output, plot_results, output_ir_path,
    ir_slice,                 \* ir_lin[3000:6000, 0]
    speech_original, speech_device, speech_reconstructed,
    speech_device_mod, speech_reconstructed_mod,
    win_len, num_windows, i,
    win_device, win_reconstructed,
    shifts, err_list,
    err_min_all, err_pos_all,
    slope, saved_ir, plotted, result, error,
    \* ---- extract_ir_sweep (extract_IR.py) ----
    x_pc,                     \* position in extract_ir_sweep
    sweep_shape,              \* sweep_response.shape
    inv_shape,                \* inv_sweep_fft.shape
    ir_pre,                   \* np.real(ifft(...)): channels x fft_size
    ir,                       \* the rolled array: fft_size x channels
    ir_lin, ir_non_lin, x_error,
    \* ---- normalize / normalize_audio ----
    n_pc, n_fn, n_signal, n_rms_level, n_factor, n_out, n_outcome,
    \* ---- compute_channel_responses (compute_channel_response.py) ----
    c_pc,                     \* position in compute_channel_responses
    signal_paths, file_idx,   \* glob(input_folder) and the loop position
    config,                   \* signal_duration, overlap_fraction, ...
    signal_len,               \* len(signal)
    window_samples, overlap_samples, step_size,
    c_num_windows, window_idx,
    spans,                    \* the windows cut from the current signal
    log_spectrogram,          \* before the threshold is applied
    channel_response,
    files, dirs,              \* the output file system
    writes,                   \* every np.save of the run, in order
    saved,                    \* the array of the last np.save
    c_error

pdsVars == << pc, margin, fs, save_output, plot_results, output_ir_path,
              ir_slice, speech_original, speech_device, speech_reconstructed,
              speech_device_mod, speech_reconstructed_mod,
              win_len, num_windows, i, win_device, win_reconstructed,
              shifts, err_list, err_min_all, err_pos_all,
              slope, saved_ir, plotted, result, error >>

irVars == << x_pc, sweep_shape, inv_shape, ir_pre, ir, ir_lin, ir_non_lin,
             x_error >>

normVars == << n_pc, n_fn, n_signal, n_rms_level, n_factor, n_out, n_outcome >>

ccrVars == << c_pc, signal_paths, file_idx, config, signal_len,
              window_samples, overlap_samples, step_size, c_num_windows,
              window_idx, spans, log_spectrogram, channel_response,
              files, dirs, writes, saved, c_error >>

vars == << pdsVars, irVars, normVars, ccrVars >>

\* What each entry point leaves alone: the state of the others.
pdsOthers == << irVars, normVars, ccrVars >>

irOthers == << pdsVars, normVars, ccrVars >>

normOthers == << pdsVars, irVars, ccrVars >>

ccrOthers == << pdsVars, irVars, normVars >>

----------------------------------------------------------------------------
(* Bounds of the model *)

MaxMargin == 1
MaxWindows == 2
MaxDelay == 1
MaxChannels == 3
MaxFft == 6
MaxSigLen == 3
MaxFiles == 2
MaxLen == 6

(* Program constants *)

ShiftStart == -200
ShiftStop == 200
Guard == 200
IrStart == 3000
IrStop == 6000
WindowDuration == 5

None == "None"

----------------------------------------------------------------------------
(* Python / numpy primitives *)

Max(a, b) == IF a >= b THEN a ELSE b

Min(a, b) == IF a <= b THEN a ELSE b

\* A slice bound k on a sequence of n items: negative bounds count from the
\* end, and every bound is clamped to 0..n.
PySliceIndex(k, n) == IF k < 0 THEN Max(k + n, 0) ELSE Min(k, n)

\* s[start:stop] covers the 0-based positions lo..hi-1.
PySliceBounds(n, start, stop) ==
    LET lo == PySliceIndex(start, n)
        hi == PySliceIndex(stop, n)
    IN  << lo, Max(lo, hi) >>

PySlice(s, start, stop) ==
    LET b == PySliceBounds(Len(s), start, stop)
    IN  SubSeq(s, b[1] + 1, b[2])

\* s[start:]
PySliceFrom(s, start) == PySlice(s, start, Len(s))

\* s[:stop]
PySliceTo(s, stop) == PySlice(s, 0, stop)

\* a // b, b # 0 (floor division)
PyFloorDiv(a, b) ==
    IF b > 0 THEN a \div b
    ELSE (0 - a) \div (0 - b)

\* list[k] raises IndexError unless -n <= k < n
PyListIndexOk(n, k) == IF k < 0 THEN k + n >= 0 ELSE k < n

PyListGet(list, k) == list[IF k < 0 THEN k + Len(list) + 1 ELSE k + 1]

\* np.arange(start, stop)
NpArange(start, stop) ==
    [k \in 1..Max(stop - start, 0) |-> start + k - 1]

RECURSIVE SumTo(_, _)
SumTo(f, n) == IF n = 0 THEN 0 ELSE f[n] + SumTo(f, n - 1)

SumSeq(s) == SumTo(s, Len(s))

\* np.convolve(a, v, mode='same') on non-empty inputs: the longer input is
\* the signal, the result has its length and is centred on the full
\* convolution.
ConvolveSame(a, v) ==
    LET sig == IF Len(v) > Len(a) THEN v ELSE a
        ker == IF Len(v) > Len(a) THEN a ELSE v
        M   == Len(sig)
        N   == Len(ker)
        off == (N - 1) \div 2
        Full(n) == SumSeq([j \in 1..N |->
                      IF n - (j - 1) >= 0 /\ n - (j - 1) <= M - 1
                      THEN ker[j] * sig[n - (j - 1) + 1] ELSE 0])
    IN  [k \in 1..M |-> Full(k - 1 + off)]

----------------------------------------------------------------------------
(* nmse_error and the dB conversion *)

NaN == [k |-> "nan"]
Inf == [k |-> "inf"]
NegInf == [k |-> "ninf"]
Num(p, q) == [k |-> "num", p |-> p, q |-> q]
Db(p, q) == [k |-> "db", p |-> p, q |-> q]

\* mean((s - r)^2) / mean((r - mean(r))^2) for equal length n > 0 is
\* n * sum((s - r)^2) / (n * sum(r^2) - sum(r)^2).
nmse_error(signal, reference_signal) ==
    IF Len(signal) # Len(reference_signal) THEN Num(0, 1)
    ELSE LET n == Len(signal) IN
         IF n = 0 THEN NaN
         ELSE LET A  == SumSeq([k \in 1..n |->
                           (signal[k] - reference_signal[k])
                           * (signal[k] - reference_signal[k])])
                  S1 == SumSeq(reference_signal)
                  S2 == SumSeq([k \in 1..n |->
                           reference_signal[k] * reference_signal[k]])
                  Q  == n * S2 - S1 * S1
              IN  IF Q = 0 THEN (IF A = 0 THEN NaN ELSE Inf)
                  ELSE Num(A * n, Q)

\* 10 * np.log10(x): -inf at 0, increasing on the positive values.
Log10Db(x) ==
    CASE x.k = "nan" -> NaN
      [] x.k = "inf" -> Inf
      [] x.k = "num" /\ x.p = 0 -> NegInf
      [] OTHER -> Db(x.p, x.q)

Rank(x) == CASE x.k = "ninf" -> 0 [] x.k = "db" -> 1 [] OTHER -> 2

\* x < y for values that are not NaN
DbLess(x, y) ==
    \/ Rank(x) < Rank(y)
    \/ x.k = "db" /\ y.k = "db" /\ x.p * y.q < y.p * x.q

\* The earlier of two positions x < y unless the later one wins: a NaN wins
\* over everything that is not NaN, then the smaller value wins.
ArgBetter(a, x, y) ==
    IF a[x].k = "nan" THEN x
    ELSE IF a[y].k = "nan" \/ DbLess(a[y], a[x]) THEN y ELSE x

RECURSIVE ArgminIn(_, _, _)
ArgminIn(a, lo, hi) ==
    IF lo = hi THEN lo
    ELSE LET mid == (lo + hi) \div 2
         IN  ArgBetter(a, ArgminIn(a, lo, mid), ArgminIn(a, mid + 1, hi))

\* np.argmin, 0-based: the first NaN if there is one, else the first minimum
NpArgmin(a) == ArgminIn(a, 1, Len(a)) - 1

NpMin(a) == a[NpArgmin(a) + 1]

----------------------------------------------------------------------------
(* process_device_signals *)

\* The recorded samples: a fixed aperiodic pattern of small integers.
Sample(k) == (((k * k * 7 + k * 13) % 1009) % 9) - 4

\* The sample rates: windows of 410 samples, and of 100 samples (shorter than
\* the two guard bands)
FsValues == << 82, 20 >>

\* inv_sweep_fft.shape[1]; ir_lin has fft_size - fft_size // 2 rows
FftSizes == {6000, 6002, 6004}

\* ir_lin[3000:6000, 0] for the rows the extraction produced
IrSlices(rows) ==
    LET n == PySliceBounds(rows, IrStart, IrStop)[2]
             - PySliceBounds(rows, IrStart, IrStop)[1]
    IN  CASE n = 0 -> {<< >>}
          [] n = 1 -> {<<1>>, <<2>>}
          [] OTHER -> {[k \in 1..n |-> IF k = 2 THEN 1 ELSE 0]}

OutputFlags ==
    { [save |-> FALSE, plot |-> FALSE, path |-> None],
      [save |-> TRUE,  plot |-> FALSE, path |-> "ir.npy"],
      [save |-> TRUE,  plot |-> TRUE,  path |-> None],
      [save |-> FALSE, plot |-> TRUE,  path |-> "ir.npy"] }

SignalOf(n, d) == [k \in 1..n |-> Sample(k + d)]

InitPDS ==
    /\ pc = "start"
    /\ margin \in 0..MaxMargin
    /\ \E k \in DOMAIN FsValues : fs = FsValues[k]
    /\ \E f \in OutputFlags :
          /\ save_output = f.save
          /\ plot_results = f.plot
          /\ output_ir_path = f.path
    /\ \E n \in FftSizes : ir_slice \in IrSlices(n - n \div 2)
    /\ \E w \in 0..MaxWindows, x \in {0, 3} :
          speech_device = SignalOf(w * WindowDuration * fs + x, 0)
    /\ \E w \in 0..MaxWindows, d \in 0..MaxDelay :
          speech_original = SignalOf(w * WindowDuration * fs, d)
    /\ speech_reconstructed = << >>
    /\ speech_device_mod = << >>
    /\ speech_reconstructed_mod = << >>
    /\ win_len = 0
    /\ num_windows = 0
    /\ i = 0
    /\ win_device = << >>
    /\ win_reconstructed = << >>
    /\ shifts = << >>
    /\ err_list = << >>
    /\ err_min_all = << >>
    /\ err_pos_all = << >>
    /\ slope = None
    /\ saved_ir = None
    /\ plotted = FALSE
    /\ result = None
    /\ error = None

\* line 132: np.convolve raises ValueError on an empty input
Convolve ==
    /\ pc = "start"
    /\ IF Len(speech_original) = 0 \/ Len(ir_slice) = 0
       THEN /\ pc' = "error"
            /\ error' = "ValueError"
            /\ UNCHANGED speech_reconstructed
       ELSE /\ pc' = "crop"
            /\ speech_reconstructed' = ConvolveSame(speech_original, ir_slice)
            /\ UNCHANGED error
    /\ UNCHANGED << margin, fs, save_output, plot_results, output_ir_path,
                    ir_slice, speech_original, speech_device,
                    speech_device_mod, speech_reconstructed_mod,
                    win_len, num_windows, i, win_device, win_reconstructed,
                    shifts, err_list, err_min_all, err_pos_all,
                    slope, saved_ir, plotted, result >>
    /\ UNCHANGED pdsOthers

NumWindows(n, w) == PyFloorDiv(n, w)

\* lines 135-141
Crop ==
    /\ pc = "crop"
    /\ speech_device_mod' = PySliceFrom(speech_device, margin)
    /\ speech_reconstructed_mod' = PySliceTo(speech_reconstructed, 0 - margin)
    /\ win_len' = WindowDuration * fs
    /\ num_windows' = NumWindows(Len(speech_device_mod'), win_len')
    /\ i' = 0
    /\ pc' = "loop"
    /\ UNCHANGED << margin, fs, save_output, plot_results, output_ir_path,
                    ir_slice, speech_original, speech_device,
                    speech_reconstructed, win_device, win_reconstructed,
                    shifts, err_list, err_min_all, err_pos_all,
                    slope, saved_ir, plotted, result, error >>
    /\ UNCHANGED pdsOthers

ShiftRange == NpArange(ShiftStart, ShiftStop)

\* lines 152-157: the error of every shift of the window
ErrList(wr, wd, sh) ==
    [k \in 1..Len(sh) |->
        nmse_error(PySlice(wr, Guard + sh[k], (0 - Guard) + sh[k]),
                   PySlice(wd, Guard, 0 - Guard))]

\* lines 143-162: one iteration of the window loop
Window ==
    /\ pc = "loop"
    /\ i < num_windows
    /\ \E wd \in {PySlice(speech_device_mod, i * win_len, (i + 1) * win_len)},
          wr \in {PySlice(speech_reconstructed_mod, i * win_len, (i + 1) * win_len)} :
       \E el \in {ErrList(wr, wd, ShiftRange)} :
       \E errors \in {[k \in 1..Len(el) |-> Log10Db(el[k])]} :
           /\ win_device' = wd
           /\ win_reconstructed' = wr
           /\ shifts' = ShiftRange
           /\ err_list' = el
           /\ err_min_all' = Append(err_min_all, NpMin(errors))
           /\ err_pos_all' = Append(err_pos_all, ShiftRange[NpArgmin(errors) + 1])
    /\ i' = i + 1
    /\ UNCHANGED << pc, margin, fs, save_output, plot_results, output_ir_path,
                    ir_slice, speech_original, speech_device,
                    speech_reconstructed, speech_device_mod,
                    speech_reconstructed_mod, win_len, num_windows,
                    slope, saved_ir, plotted, result, error >>
    /\ UNCHANGED pdsOthers

\* The slope over the intervals between the windows instead of the windows.
SlopeValuePerInterval(pos) ==
    << PyListGet(pos, -1) - PyListGet(pos, 0), Len(pos) - 1 >>

\* (err_pos_all[-1] - err_pos_all[0]) / len(err_pos_all), as the fraction
\* << numerator, denominator >>
SlopeValue(pos) ==
    << PyListGet(pos, -1) - PyListGet(pos, 0), Len(pos) >>

\* line 165
Slope ==
    /\ pc = "loop"
    /\ i >= num_windows
    /\ IF PyListIndexOk(Len(err_pos_all), -1) /\ PyListIndexOk(Len(err_pos_all), 0)
       THEN /\ slope' = SlopeValue(err_pos_all)
            /\ pc' = "save"
            /\ UNCHANGED error
       ELSE /\ pc' = "error"
            /\ error' = "IndexError"
            /\ UNCHANGED slope
    /\ UNCHANGED << margin, fs, save_output, plot_results, output_ir_path,
                    ir_slice, speech_original, speech_device,
                    speech_reconstructed, speech_device_mod,
                    speech_reconstructed_mod, win_len, num_windows, i,
                    win_device, win_reconstructed, shifts, err_list,
                    err_min_all, err_pos_all, saved_ir, plotted, result >>
    /\ UNCHANGED pdsOthers

\* lines 168-169
SaveIr ==
    /\ pc = "save"
    /\ saved_ir' = IF save_output /\ output_ir_path # None
                   THEN ir_slice ELSE saved_ir
    /\ pc' = "plot"
    /\ UNCHANGED << margin, fs, save_output, plot_results, output_ir_path,
                    ir_slice, speech_original, speech_device,
                    speech_reconstructed, speech_device_mod,
                    speech_reconstructed_mod, win_len, num_windows, i,
                    win_device, win_reconstructed, shifts, err_list,
                    err_min_all, err_pos_all, slope, plotted, result, error >>
    /\ UNCHANGED pdsOthers

\* lines 172-184
PlotAndReturn ==
    /\ pc = "plot"
    /\ plotted' = plot_results
    /\ result' = << err_min_all, slope >>
    /\ pc' = "done"
    /\ UNCHANGED << margin, fs, save_output, plot_results, output_ir_path,
                    ir_slice, speech_original, speech_device,
                    speech_reconstructed, speech_device_mod,
                    speech_reconstructed_mod, win_len, num_windows, i,
                    win_device, win_reconstructed, shifts, err_list,
                    err_min_all, err_pos_all, slope, saved_ir, error >>
    /\ UNCHANGED pdsOthers

IdlePDS ==
    /\ pc = "idle"
    /\ margin = 0 /\ fs = 0
    /\ save_output = FALSE /\ plot_results = FALSE /\ output_ir_path = None
    /\ ir_slice = << >>
    /\ speech_original = << >> /\ speech_device = << >>
    /\ speech_reconstructed = << >>
    /\ speech_device_mod = << >> /\ speech_reconstructed_mod = << >>
    /\ win_len = 0 /\ num_windows = 0 /\ i = 0
    /\ win_device = << >> /\ win_reconstructed = << >>
    /\ shifts = << >> /\ err_list = << >>
    /\ err_min_all = << >> /\ err_pos_all = << >>
    /\ slope = None /\ saved_ir = None /\ plotted = FALSE
    /\ result = None /\ error = None

----------------------------------------------------------------------------
(* extract_ir_sweep *)

\* m.T for a matrix given as a sequence of equally long rows
Transpose(m) ==
    [c \in 1..Len(m[1]) |-> [r \in 1..Len(m) |-> m[r][c]]]

\* np.roll(m, shift) without an axis: the array is flattened in row-major
\* order, rolled, and given its shape back.
NpRoll(m, shift) ==
    LET R == Len(m)
        C == Len(m[1])
        T == R * C
        Flat(j) == m[(j \div C) + 1][(j % C) + 1]
    IN  [r \in 1..R |-> [c \in 1..C |->
            Flat((((r - 1) * C + (c - 1)) - shift) % T)]]

\* numpy broadcasting of an (a, n) array with an (n,) array (b = 0) or a
\* (b, n) array: the shapes broadcast when a = b or one of them is 1, and the
\* product has the larger number of rows.
BroadcastOk(a, b) == b = 0 \/ b = 1 \/ a = 1 \/ a = b

BroadcastChannels(a, b) == Max(a, b)

InitIR ==
    /\ x_pc = "start"
    /\ \E samples \in {4}, c \in 0..MaxChannels :
          sweep_shape = IF c = 0 THEN << samples >> ELSE << samples, c >>
    /\ \E c \in 1..MaxChannels, n \in 1..MaxFft : inv_shape = << c, n >>
    /\ ir_pre = << >>
    /\ ir = << >>
    /\ ir_lin = << >>
    /\ ir_non_lin = << >>
    /\ x_error = None

IdleIR ==
    /\ x_pc = "idle"
    /\ sweep_shape = << >> /\ inv_shape = << >>
    /\ ir_pre = << >> /\ ir = << >> /\ ir_lin = << >> /\ ir_non_lin = << >>
    /\ x_error = None

\* lines 59-60
IrTranspose ==
    /\ x_pc = "start"
    /\ sweep_shape' = IF Len(sweep_shape) > 1
                      THEN << sweep_shape[2], sweep_shape[1] >>
                      ELSE sweep_shape
    /\ x_pc' = "fft"
    /\ UNCHANGED << inv_shape, ir_pre, ir, ir_lin, ir_non_lin, x_error >>
    /\ UNCHANGED irOthers

\* lines 62-66: the transforms are library calls; the result holds one
\* distinct value per (channel, sample).
IrDeconvolve ==
    /\ x_pc = "fft"
    /\ LET fft_size == inv_shape[2]
           sweep_ch == IF Len(sweep_shape) > 1 THEN sweep_shape[1] ELSE 0
           ch       == BroadcastChannels(inv_shape[1], sweep_ch)
       IN  IF ~BroadcastOk(inv_shape[1], sweep_ch)
           THEN /\ x_pc' = "error"
                /\ x_error' = "ValueError"
                /\ UNCHANGED ir_pre
           ELSE /\ x_pc' = "roll"
                /\ ir_pre' = [c \in 1..ch |-> [n \in 1..fft_size |->
                                 (c - 1) * fft_size + n]]
                /\ UNCHANGED x_error
    /\ UNCHANGED << sweep_shape, inv_shape, ir, ir_lin, ir_non_lin >>
    /\ UNCHANGED irOthers

\* line 67
IrRoll ==
    /\ x_pc = "roll"
    /\ ir' = NpRoll(Transpose(ir_pre), Len(ir_pre[1]) \div 2)
    /\ x_pc' = "split"
    /\ UNCHANGED << sweep_shape, inv_shape, ir_pre, ir_lin, ir_non_lin,
                    x_error >>
    /\ UNCHANGED irOthers

\* lines 69-72
IrSplit ==
    /\ x_pc = "split"
    /\ ir_lin' = PySliceFrom(ir, Len(ir) \div 2)
    /\ ir_non_lin' = PySliceTo(ir, Len(ir) \div 2)
    /\ x_pc' = "done"
    /\ UNCHANGED << sweep_shape, inv_shape, ir_pre, ir, x_error >>
    /\ UNCHANGED irOthers

----------------------------------------------------------------------------
(* normalize (extract_IR.py) and normalize_audio
   (compute_channel_response.py) *)

RECURSIVE Pow10(_)
Pow10(e) == IF e = 0 THEN 1 ELSE 10 * Pow10(e - 1)

SumSquares(s) == SumSeq([k \in 1..Len(s) |-> s[k] * s[k]])

\* np.sqrt(num / den) with numpy's float division: 0/0 is NaN and x/0 is
\* inf, both with a RuntimeWarning and no exception.
SqrtRatio(num, den) ==
    IF den = 0 THEN (IF num = 0 THEN NaN ELSE Inf)
    ELSE [k |-> "sqrt", p |-> num, q |-> den]

\* x * a for a sample x and the scaling factor a
Scale(x, a) ==
    CASE a.k = "nan" -> NaN
      [] a.k = "inf" -> (IF x = 0 THEN NaN ELSE IF x > 0 THEN Inf ELSE NegInf)
      [] OTHER -> [k |-> "scaled", x |-> x, p |-> a.p, q |-> a.q]

\* normalize, lines 43-44 of extract_IR.py (rms_level a multiple of 10 dB)
normalize_factor(signal, rms_level) ==
    LET linear_rms == Pow10(rms_level \div 10)
    IN  SqrtRatio(Len(signal) * linear_rms * linear_rms, SumSquares(signal))

\* normalize_audio, lines 63-64 of compute_channel_response.py
normalize_audio_factor(sig, rms_level) ==
    LET r == Pow10(rms_level \div 10)
    IN  SqrtRatio(Len(sig) * r * r, SumSquares(sig))

RECURSIVE SeqsUpTo(_, _)
SeqsUpTo(S, n) ==
    IF n = 0 THEN {<< >>}
    ELSE LET shorter == SeqsUpTo(S, n - 1)
         IN  shorter \cup {Append(s, x) : s \in {q \in shorter : Len(q) = n - 1}, x \in S}

InitNorm ==
    /\ n_pc = "start"
    /\ n_fn \in {"normalize", "normalize_audio"}
    /\ n_signal \in SeqsUpTo({-1, 0, 1}, MaxSigLen)
    /\ n_rms_level \in {0, 10}
    /\ n_factor = None
    /\ n_out = None
    /\ n_outcome = "running"

IdleNorm ==
    /\ n_pc = "idle"
    /\ n_fn = None /\ n_signal = << >> /\ n_rms_level = 0
    /\ n_factor = None /\ n_out = None /\ n_outcome = "idle"

\* extract_IR.py lines 43-44, compute_channel_response.py lines 63-64
NormFactor ==
    /\ n_pc = "start"
    /\ n_factor' = IF n_fn = "normalize"
                   THEN normalize_factor(n_signal, n_rms_level)
                   ELSE normalize_audio_factor(n_signal, n_rms_level)
    /\ n_pc' = "scale"
    /\ UNCHANGED << n_fn, n_signal, n_rms_level, n_out, n_outcome >>
    /\ UNCHANGED normOthers

\* extract_IR.py line 45, compute_channel_response.py lines 67-69
NormReturn ==
    /\ n_pc = "scale"
    /\ n_out' = [k \in 1..Len(n_signal) |-> Scale(n_signal[k], n_factor)]
    /\ n_outcome' = "returned"
    /\ n_pc' = "done"
    /\ UNCHANGED << n_fn, n_signal, n_rms_level, n_factor >>
    /\ UNCHANGED normOthers

----------------------------------------------------------------------------
(* compute_channel_responses *)

\* str.split(sep): the pieces between the separators
Split(s, sep) ==
    LET at == {k \in 1..Len(s) : s[k] = sep}
        n  == Cardinality(at)
        SepAt(j) == IF j = 0 THEN 0
                    ELSE IF j = n + 1 THEN Len(s) + 1
                    ELSE CHOOSE k \in at : Cardinality({m \in at : m <= k}) = j
    IN  [j \in 1..(n + 1) |-> SubSeq(s, SepAt(j - 1) + 1, SepAt(j) - 1)]

\* os.path.basename
Basename(path) == PyListGet(Split(path, "/"), -1)

DigitChar(d) == << "0", "1", "2", "3", "4", "5", "6", "7", "8", "9" >>[d + 1]

\* str(n) for n >= 0
RECURSIVE IntStr(_)
IntStr(n) ==
    IF n < 10 THEN << DigitChar(n) >>
    ELSE Append(IntStr(n \div 10), DigitChar(n % 10))

\* line 145: os.path.join(output_folder, f'{device}_{speaker}_win_{idx}.npy')
SavePath(output_folder, device, speaker, idx) ==
    output_folder \o << "/" >> \o device \o << "_" >> \o speaker
        \o << "_", "w", "i", "n", "_" >> \o IntStr(idx)
        \o << ".", "n", "p", "y" >>

\* The count without the overlap taken off the length.
NumWindowsIgnoringOverlap(len, overlap, step) == PyFloorDiv(len, step)

\* line 110
NumWindowsOf(len, overlap, step) == PyFloorDiv(len - overlap, step)

Val(x) == [k |-> "val", v |-> x]

\* The threshold applied with >= : entries equal to it are dropped too.
ApplyThresholdInclusive(m, threshold) ==
    [b \in 1..Len(m) |-> [f \in 1..Len(m[b]) |->
        IF m[b][f] >= threshold THEN [k |-> "nan"]
        ELSE [k |-> "val", v |-> m[b][f]]]]

\* line 131: log_spectrogram[log_spectrogram > threshold] = np.nan
ApplyThreshold(m, threshold) ==
    [b \in 1..Len(m) |-> [f \in 1..Len(m[b]) |->
        IF m[b][f] > threshold THEN NaN ELSE Val(m[b][f])]]

\* np.nanmean of one row: the mean sum/count of the entries that are not NaN,
\* NaN (with a RuntimeWarning) when all of them are
NanMean(row) ==
    LET n == Cardinality({f \in 1..Len(row) : row[f].k = "val"})
    IN  IF n = 0 THEN NaN
        ELSE Num(SumSeq([f \in 1..Len(row) |->
                    IF row[f].k = "val" THEN row[f].v ELSE 0]), n)

\* line 140: np.nanmean(log_spectrogram, axis=1)
NanMeanRows(m) == [b \in 1..Len(m) |-> NanMean(m[b])]

\* The input files: two recordings the naming cannot tell apart, one of
\* another device, and one with too short a path.
Paths ==
    << << "a", "/", "x", "/", "s", ".", "w" >>,
       << "a", "/", "y", "/", "s", ".", "v" >>,
       << "b", "/", "x", "/", "s", ".", "w" >>,
       << "x", "/", "s", ".", "w" >> >>

OutputFolder == << "o" >>

\* Durations in tenths of a second: int(d * sample_rate) is
\* (tenths * sample_rate) \div 10.
Configs ==
    { [signal_duration |-> 40, overlap_fraction |-> 2, sample_rate |-> 16000,
       threshold |-> 0],
      [signal_duration |-> 4, overlap_fraction |-> 2, sample_rate |-> 10,
       threshold |-> 0],
      [signal_duration |-> 3, overlap_fraction |-> 0, sample_rate |-> 10,
       threshold |-> -1],
      [signal_duration |-> 2, overlap_fraction |-> 2, sample_rate |-> 10,
       threshold |-> 0] }

\* len(signal): short recordings at the low sample rate; at 16 kHz the
\* lengths around one and two windows and the 10-second recording
SignalLengths(cfg) ==
    IF cfg.sample_rate = 10 THEN 0..MaxLen
    ELSE {0, 63999, 64000, 124799, 124800, 160000}

\* The log-magnitude spectrogram of a window (bins x frames); the transform
\* is a library call. Every row occurs in the first bin and in the second.
SpectrumRows == {<< a, b >> : a \in {-1, 0, 1}, b \in {-1, 0, 1}}

Spectrograms == {<< r, << 0 - r[2], 0 - r[1] >> >> : r \in SpectrumRows}

\* The lists of distinct paths a glob returns, in the order of Paths
PathLists ==
    LET picks == {ix \in SeqsUpTo(1..Len(Paths), MaxFiles) :
                     \A a \in 1..Len(ix), b \in 1..Len(ix) :
                         a < b => ix[a] < ix[b]}
    IN  {[k \in 1..Len(ix) |-> Paths[ix[k]]] : ix \in picks}

InitCCR ==
    /\ c_pc = "files"
    /\ signal_paths \in PathLists
    /\ file_idx = 0
    /\ config \in Configs
    /\ signal_len = 0
    /\ window_samples = 0 /\ overlap_samples = 0 /\ step_size = 0
    /\ c_num_windows = 0 /\ window_idx = 0
    /\ spans = << >>
    /\ log_spectrogram = << >>
    /\ channel_response = << >>
    /\ files = {} /\ dirs = {}
    /\ writes = << >>
    /\ saved = << >>
    /\ c_error = None

IdleCCR ==
    /\ c_pc = "idle"
    /\ signal_paths = << >> /\ file_idx = 0
    /\ config = None
    /\ signal_len = 0
    /\ window_samples = 0 /\ overlap_samples = 0 /\ step_size = 0
    /\ c_num_windows = 0 /\ window_idx = 0
    /\ spans = << >>
    /\ log_spectrogram = << >>
    /\ channel_response = << >>
    /\ files = {} /\ dirs = {}
    /\ writes = << >>
    /\ saved = << >>
    /\ c_error = None

\* lines 99-110: load, normalize and pre-emphasize the next file (its length
\* is kept), then the window parameters; // raises on a zero step
CcrLoad ==
    /\ c_pc = "files"
    /\ file_idx < Len(signal_paths)
    /\ \E len \in SignalLengths(config) :
       LET w == (config.signal_duration * config.sample_rate) \div 10
           o == (config.overlap_fraction * config.sample_rate) \div 10
       IN  /\ signal_len' = len
           /\ window_samples' = w
           /\ overlap_samples' = o
           /\ step_size' = w - o
           /\ spans' = << >>
           /\ window_idx' = 0
           /\ IF w - o = 0
              THEN /\ c_pc' = "error"
                   /\ c_error' = "ZeroDivisionError"
                   /\ UNCHANGED c_num_windows
              ELSE /\ c_pc' = "windows"
                   /\ c_num_windows' = NumWindowsOf(len, o, w - o)
                   /\ UNCHANGED c_error
    /\ UNCHANGED << signal_paths, file_idx, config, log_spectrogram,
                    channel_response, files, dirs, writes, saved >>
    /\ UNCHANGED ccrOthers

\* lines 112-147: one window of the current file
CcrWindow ==
    /\ c_pc = "windows"
    /\ window_idx < c_num_windows
    /\ \E spec \in Spectrograms :
       LET signal_path == signal_paths[file_idx + 1]
           start == window_idx * step_size
           end   == start + window_samples
           parts == Split(signal_path, "/")
       IN  /\ spans' = Append(spans, PySliceBounds(signal_len, start, end))
           /\ log_spectrogram' = spec
           /\ channel_response' =
                 NanMeanRows(ApplyThreshold(spec, config.threshold))
           /\ IF ~PyListIndexOk(Len(parts), -3)
              THEN /\ c_pc' = "error"
                   /\ c_error' = "IndexError"
                   /\ UNCHANGED << files, dirs, writes, saved, window_idx >>
              ELSE LET device    == PyListGet(parts, -3)
                       speaker   == PyListGet(Split(Basename(signal_path), "."), 0)
                       save_path == SavePath(OutputFolder, device, speaker,
                                             window_idx)
                   IN  /\ dirs' = dirs \cup {OutputFolder}
                       /\ files' = files \cup {save_path}
                       /\ writes' = Append(writes, save_path)
                       /\ saved' = channel_response'
                       /\ window_idx' = window_idx + 1
                       /\ UNCHANGED << c_pc, c_error >>
    /\ UNCHANGED << signal_paths, file_idx, config, signal_len,
                    window_samples, overlap_samples, step_size, c_num_windows >>
    /\ UNCHANGED ccrOthers

\* line 112: the window loop of the file has ended
CcrFileDone ==
    /\ c_pc = "windows"
    /\ window_idx >= c_num_windows
    /\ file_idx' = file_idx + 1
    /\ c_pc' = "files"
    /\ UNCHANGED << signal_paths, config, signal_len, window_samples,
                    overlap_samples, step_size, c_num_windows, window_idx,
                    spans, log_spectrogram, channel_response, files, dirs,
                    writes, saved, c_error >>
    /\ UNCHANGED ccrOthers

\* line 99: the file loop has ended
CcrReturn ==
    /\ c_pc = "files"
    /\ file_idx >= Len(signal_paths)
    /\ c_pc' = "done"
    /\ UNCHANGED << signal_paths, file_idx, config, signal_len,
                    window_samples, overlap_samples, step_size, c_num_windows,
                    window_idx, spans, log_spectrogram, channel_response,
                    files, dirs, writes, saved, c_error >>
    /\ UNCHANGED ccrOthers

----------------------------------------------------------------------------
(* Specifications: one per entry point *)

Init == InitPDS /\ IdleIR /\ IdleNorm /\ IdleCCR

Next == Convolve \/ Crop \/ Window \/ Slope \/ SaveIr \/ PlotAndReturn

Spec == Init /\ [][Next]_vars

InitOfIR == IdlePDS /\ InitIR /\ IdleNorm /\ IdleCCR

NextOfIR == IrTranspose \/ IrDeconvolve \/ IrRoll \/ IrSplit

SpecIR == InitOfIR /\ [][NextOfIR]_vars

InitOfNorm == IdlePDS /\ IdleIR /\ InitNorm /\ IdleCCR

NextOfNorm == NormFactor \/ NormReturn

SpecNorm == InitOfNorm /\ [][NextOfNorm]_vars

InitOfCCR == IdlePDS /\ IdleIR /\ IdleNorm /\ InitCCR

NextOfCCR == CcrLoad \/ CcrWindow \/ CcrFileDone \/ CcrReturn

SpecCCR == InitOfCCR /\ [][NextOfCCR]_vars

----------------------------------------------------------------------------
(* Claims about process_device_signals *)

\* The crop of line 135-136 has run.
Cropped == pc \in {"loop", "save", "plot", "done"} \/ error = "IndexError"

\* C1: for every margin m >= 0 the cropped device signal is the device
\* signal without its first m samples and the cropped reconstructed signal
\* is the reconstructed signal without its last m samples (unchanged when
\* m = 0).
C1_CropDropsMargin ==
    Cropped =>
        /\ speech_device_mod
             = SubSeq(speech_device, margin + 1, Len(speech_device))
        /\ speech_reconstructed_mod
             = SubSeq(speech_reconstructed, 1,
                      Len(speech_reconstructed) - margin)
        /\ Len(speech_reconstructed_mod) = Len(speech_reconstructed) - margin

\* C2: every processed window has an error value for each of the 401 integer
\* shifts -200..+200, both end points included.
C2_AllShiftsSearched ==
    (Cropped /\ i >= 1) =>
        /\ Len(err_list) = 401
        /\ Len(shifts) = Len(err_list)
        /\ \A s \in -200..200 : \E k \in 1..Len(shifts) : shifts[k] = s

\* C3: every processed window is a full window of win_len samples in both the
\* cropped device signal and the cropped reconstructed signal.
C3_FullWindowsOnly ==
    (Cropped /\ i >= 1) =>
        /\ Len(win_device) = win_len
        /\ Len(win_reconstructed) = win_len

\* C4: with identical reconstructed and device signals and margin 0, every
\* window records the minimum error -inf dB at best shift 0.
C4_IdenticalBestShiftZero ==
    (Cropped /\ margin = 0 /\ speech_reconstructed = speech_device) =>
        \A w \in 1..i :
            /\ err_min_all[w] = NegInf
            /\ err_pos_all[w] = 0

----------------------------------------------------------------------------
(* Claims about extract_ir_sweep *)

\* C5: for any number of channels, ir_non_lin followed by ir_lin has fft_size
\* samples per channel, and rolling each channel of it back by fft_size / 2
\* samples gives that channel's result before the roll.
C5_RollRoundTrip ==
    x_pc = "done" =>
        LET cat == ir_non_lin \o ir_lin
            N   == inv_shape[2]
        IN  /\ Len(cat) = N
            /\ \A c \in 1..Len(ir_pre) : \A n \in 1..N :
                   cat[(((n - 1) + N \div 2) % N) + 1][c] = ir_pre[c][n]

----------------------------------------------------------------------------
(* Claims about normalize / normalize_audio *)

\* C9: a zero-length signal makes the normalizer fail with an error; no value
\* is returned.
C9_EmptySignalRaises ==
    (n_pc = "done" /\ n_signal = << >>) =>
        (n_outcome = "raised" /\ n_out = None)

----------------------------------------------------------------------------
(* Claims about compute_channel_responses *)

\* C6: with step S = W - O > 0 exactly floor((L - O) / S) windows are produced
\* when L >= O and none when L < W; window k covers [k*S, k*S + W) and lies
\* inside the signal; the 10-second 16 kHz signal with a 4.0 s window and 0.2
\* overlap gives exactly 2 windows.
C6_WindowCount ==
    step_size > 0 =>
        LET L == signal_len
            W == window_samples
            O == overlap_samples
            S == step_size
            expected == IF L >= O THEN (L - O) \div S ELSE 0
        IN  /\ L >= O => c_num_windows = expected
            /\ L < W => expected = 0
            /\ Len(spans) <= expected
            /\ c_pc \in {"files", "done"} => Len(spans) = expected
            /\ \A k \in 1..Len(spans) :
                  /\ spans[k] = << (k - 1) * S, (k - 1) * S + W >>
                  /\ spans[k][2] <= L
            /\ (L = 160000 /\ W = 64000 /\ O = 3200) => expected = 2

\* The 10-second recording has been cut into its two windows.
C6_Witness ==
    /\ c_pc = "files" /\ file_idx = 1
    /\ signal_len = 160000 /\ window_samples = 64000 /\ overlap_samples = 3200
    /\ spans = << << 0, 64000 >>, << 60800, 124800 >> >>

\* C7: over distinct input paths every output file is written exactly once:
\* no write of the run goes to a file written earlier, and the number of
\* output files is the number of (file, window) pairs processed.
C7_EachFileWrittenOnce ==
    /\ \A a \in 1..Len(writes), b \in 1..Len(writes) :
          a # b => writes[a] # writes[b]
    /\ Cardinality(files) = Len(writes)

\* C8: the saved value of every bin is the mean of exactly the spectrogram
\* entries of the bin that are <= threshold, and NaN (not zero, not an
\* interpolated value) when every entry of the bin is above the threshold.
C8_MeanOfKeptEntries ==
    (Len(writes) >= 1 /\ c_error # "IndexError") =>
        /\ Len(saved) = Len(log_spectrogram)
        /\ \A b \in 1..Len(log_spectrogram) :
              LET row  == log_spectrogram[b]
                  kept == {f \in 1..Len(row) : row[f] <= config.threshold}
              IN  saved[b] =
                     IF kept = {} THEN NaN
                     ELSE Num(SumSeq([f \in 1..Len(row) |->
                                 IF f \in kept THEN row[f] ELSE 0]),
                              Cardinality(kept))

\* A saved response with a bin that is all above the threshold and a bin that
\* keeps only its entry equal to the threshold.
C8_Witness ==
    /\ Len(writes) >= 1 /\ c_error = None
    /\ config.threshold = -1
    /\ log_spectrogram = << << 0, 1 >>, << -1, 0 >> >>
    /\ saved = << NaN, Num(-1, 1) >>

====
